---- MODULE Spec2Model ----
(***************************************************************************)
(* The skill lifecycle of 2din3dbevy: src/src/main.rs and its variant      *)
(* src/examples/test2.rs.  Both are Bevy apps whose Update schedule holds   *)
(* spawn_skill, animate_skills, despawn_skills, camera_controls,           *)
(* player_movement and debug_skill_info, registered as one tuple with no   *)
(* ordering constraint.  camera_controls only moves the camera and         *)
(* debug_skill_info only prints; neither touches the state below.          *)
(*                                                                         *)
(* Units.  Times are Durations, whole seconds and nanoseconds as in Rust.  *)
(* Lengths are f32, as in the code, with IEEE 754 rounding.  The frame     *)
(* deltas fed are at most 250 ms, the max_delta to which bevy's virtual     *)
(* clock clamps every delta.                                               *)
(***************************************************************************)
EXTENDS Integers, Sequences, FiniteSets, TLC

VARIABLES
    assets,        \* the T for which the App's plugins registered Assets<T>
    phase,         \* "startup" before setup has run, "update" afterwards,
                   \* "panicked" once a system has panicked
    time,          \* Res<Time>: [delta, elapsed] of the running frame
    input,         \* Res<ButtonInput<KeyCode>>: [just_pressed, pressed]
    player,        \* translations of the Player entities: {} or {p}
    skills,        \* entity id -> the components of a WaterSkill entity
    material,      \* test2.rs: {frame.xy} of the SkillMaterial asset, or {}
    spawnQueue,    \* Commands: spawns queued in this frame
    despawnQueue,  \* Commands: despawns queued in this frame
    nextId,        \* next fresh entity id
    runs,          \* how often each system has run in this frame
    born           \* history: Time.elapsed of the frame that created an id

vars == <<assets, phase, time, input, player, skills, material, spawnQueue,
          despawnQueue, nextId, runs, born>>

(***************************************************************************)
(* f32: a value is m * 2^e with m = 0 (and e = 0) or 2^23 <= |m| < 2^24.   *)
(* Results are rounded to nearest, ties to even, as IEEE 754 does; the     *)
(* values met here are far from overflow and from the subnormal range.     *)
(***************************************************************************)
F32(m, e) == [m |-> m, e |-> e]
F32Zero == F32(0, 0)

Abs(n) == IF n < 0 THEN -n ELSE n
Sign(n) == IF n < 0 THEN -1 ELSE 1

RECURSIVE BitLen(_)
BitLen(n) == IF n = 0 THEN 0 ELSE 1 + BitLen(n \div 2)

\* n / 2^k, to the nearest integer, ties to even
RoundShift(n, k) ==
    IF k = 0 THEN n
    ELSE LET q == n \div 2^k
             r == n % 2^k
             half == 2^(k - 1)
         IN IF r > half \/ (r = half /\ q % 2 = 1) THEN q + 1 ELSE q

\* the f32 nearest to sign * n * 2^e, for 0 <= n < 2^31
F32Round(sign, n, e) ==
    IF n = 0 THEN F32Zero
    ELSE LET len == BitLen(n)
         IN IF len <= 24
            THEN F32(sign * n * 2^(24 - len), e - (24 - len))
            ELSE LET q == RoundShift(n, len - 24)
                 IN IF q = 2^24
                    THEN F32(sign * 2^23, e + (len - 24) + 1)
                    ELSE F32(sign * q, e + (len - 24))

\* n as f32, for |n| < 2^31
IntToF32(n) == F32Round(Sign(n), Abs(n), 0)

F32Mul(a, b) ==
    IF a.m = 0 \/ b.m = 0 THEN F32Zero
    ELSE LET ma == Abs(a.m)
             mb == Abs(b.m)
             a1 == ma \div 4096
             a0 == ma % 4096
             b1 == mb \div 4096
             b0 == mb % 4096
             mid == a1 * b0 + a0 * b1
             low == (mid % 4096) * 4096 + a0 * b0
             hi == a1 * b1 + mid \div 4096 + low \div 2^24
             lo == low % 2^24
             sign == Sign(a.m) * Sign(b.m)
             \* the product is hi * 2^24 + lo, of 47 or 48 bits
             wide == hi >= 2^23
             q == IF wide THEN hi ELSE 2 * hi + lo \div 2^23
             r == IF wide THEN lo ELSE lo % 2^23
             half == IF wide THEN 2^23 ELSE 2^22
             up == r > half \/ (r = half /\ q % 2 = 1)
             e == a.e + b.e + (IF wide THEN 24 ELSE 23)
         IN IF up /\ q + 1 = 2^24
            THEN F32(sign * 2^23, e + 1)
            ELSE F32(sign * (IF up THEN q + 1 ELSE q), e)

\* long division: floor(r * 2^n / d) and the remainder, from q
RECURSIVE DivBits(_, _, _, _)
DivBits(q, r, d, n) ==
    IF n = 0 THEN [q |-> q, r |-> r]
    ELSE IF 2 * r >= d
         THEN DivBits(2 * q + 1, 2 * r - d, d, n - 1)
         ELSE DivBits(2 * q, 2 * r, d, n - 1)

\* a / b, for b # 0
F32Div(a, b) ==
    IF a.m = 0 THEN F32Zero
    ELSE LET ma == Abs(a.m)
             mb == Abs(b.m)
             d == DivBits(ma \div mb, ma % mb, mb, 25)
             sticky == IF d.r = 0 THEN 0 ELSE 1
         IN F32Round(Sign(a.m) * Sign(b.m), 2 * d.q + sticky,
                     a.e - b.e - 26)

F32Add(a, b) ==
    IF a.m = 0 THEN b
    ELSE IF b.m = 0 THEN a
    ELSE LET big == IF a.e >= b.e THEN a ELSE b
             small == IF a.e >= b.e THEN b ELSE a
             d == big.e - small.e
         IN IF d >= 26 THEN big
            ELSE LET s == Abs(small.m) * 8
                     sq == s \div 2^d
                     \* the bits shifted out are kept as one sticky bit
                     sb == IF s % 2^d # 0 /\ sq % 2 = 0 THEN sq + 1 ELSE sq
                     sum == big.m * 8 + Sign(small.m) * sb
                 IN F32Round(Sign(sum), Abs(sum), big.e - 3)

F32Neg(a) == F32(-a.m, a.e)
F32Sub(a, b) == F32Add(a, F32Neg(b))

\* a <= b
F32Le(a, b) == F32Sub(b, a).m >= 0

(***************************************************************************)
(* Program constants.                                                      *)
(***************************************************************************)
SPRITE_COLS == 5
SPRITE_ROWS == 5
TOTAL_FRAMES == SPRITE_COLS * SPRITE_ROWS
NANOS_PER_SEC == 1000 * 1000 * 1000

Dur(s, n) == [secs |-> s, nanos |-> n]
DurZero == Dur(0, 0)

\* Timer::from_seconds(0.05, Repeating): Duration::from_secs_f32(0.05f32),
\* and 0.05f32 is 0.0500000007450580596923828125, rounded to the nanosecond
ANIMATION_PERIOD == Dur(0, 50000001)
\* Timer::from_seconds(3.0, Once): Duration::from_secs_f32(3.0), exact
LIFETIME == Dur(3, 0)
\* let speed = 3.0
PLAYER_SPEED == 3
\* Vec3::new(1.0, 1.0, 0.0)
SpawnOffset == <<IntToF32(1), IntToF32(1), F32Zero>>
\* Transform::from_xyz(0.0, 0.5, 0.0)
PlayerStart == <<F32Zero, F32Div(IntToF32(1), IntToF32(2)), F32Zero>>

\* The asset collections DefaultPlugins registers, of those a system asks
\* for; neither main adds a plugin of its own.
DefaultAssets == {"Mesh", "StandardMaterial", "TextureAtlasLayout"}

(***************************************************************************)
(* Bounds of the model.                                                    *)
(***************************************************************************)
\* skill entities spawned in one run
MaxSpawns == 2
\* Time.elapsed, in milliseconds, up to which main.rs is followed
MaxElapsed == 3750
\* Time.elapsed, in milliseconds, up to which test2.rs is followed (six
\* cadence periods; no lifetime runs out within it)
MaxElapsedTest2 == 301
\* largest |coordinate|, in world units, the player is followed to
MaxCoord == 1

\* An Option is a set with at most one element.
None == {}
Some(v) == {v}
Unwrap(o) == CHOOSE v \in o : TRUE

CoreSystems == {"spawn_skill", "animate_skills", "despawn_skills"}
AllSystems == CoreSystems \cup {"player_movement"}

(***************************************************************************)
(* Vec3.                                                                   *)
(***************************************************************************)
VecAdd(a, b) ==
    <<F32Add(a[1], b[1]), F32Add(a[2], b[2]), F32Add(a[3], b[3])>>
VecScale(a, k) == <<F32Mul(a[1], k), F32Mul(a[2], k), F32Mul(a[3], k)>>

(***************************************************************************)
(* std::time::Duration: seconds and nanoseconds below one second.          *)
(***************************************************************************)
DurAdd(a, b) ==
    LET n == a.nanos + b.nanos
    IN IF n >= NANOS_PER_SEC
       THEN Dur(a.secs + b.secs + 1, n - NANOS_PER_SEC)
       ELSE Dur(a.secs + b.secs, n)

DurLe(a, b) == a.secs < b.secs \/ (a.secs = b.secs /\ a.nanos <= b.nanos)

\* a - b, for b <= a
DurSub(a, b) ==
    IF a.nanos >= b.nanos
    THEN Dur(a.secs - b.secs, a.nanos - b.nanos)
    ELSE Dur(a.secs - b.secs - 1, a.nanos + NANOS_PER_SEC - b.nanos)

\* e.as_nanos() / d.as_nanos() and e.as_nanos() % d.as_nanos(), for d > 0
RECURSIVE DurDivRem(_, _, _)
DurDivRem(e, d, q) ==
    IF DurLe(d, e)
    THEN DurDivRem(DurSub(e, d), d, q + 1)
    ELSE [quot |-> q, rem |-> e]

Millis(ms) == Dur(ms \div 1000, (ms % 1000) * 1000 * 1000)

(***************************************************************************)
(* bevy_time::Timer, as the systems use it (spec section 4.1).             *)
(***************************************************************************)
TimerFromSeconds(d, m) ==
    [duration |-> d, mode |-> m, elapsed |-> DurZero, finished |-> FALSE,
     times_finished_this_tick |-> 0]

TimerTick(t, delta) ==
    IF t.mode = "Once" /\ t.finished
    THEN [t EXCEPT !.times_finished_this_tick = 0]
    ELSE LET e == DurAdd(t.elapsed, delta)
             fin == DurLe(t.duration, e)
         IN IF fin
            THEN IF t.mode = "Repeating"
                 THEN LET dr == DurDivRem(e, t.duration, 0)
                      IN [t EXCEPT !.elapsed = dr.rem,
                                   !.finished = TRUE,
                                   !.times_finished_this_tick = dr.quot]
                 ELSE [t EXCEPT !.elapsed = t.duration,
                                !.finished = TRUE,
                                !.times_finished_this_tick = 1]
            ELSE [t EXCEPT !.elapsed = e,
                           !.finished = FALSE,
                           !.times_finished_this_tick = 0]

TimerJustFinished(t) == t.times_finished_this_tick > 0
TimerFinished(t) == t.finished

(***************************************************************************)
(* The scheduler: a system of the Update tuple runs once per frame, in no  *)
(* fixed order; the frame ends when none is left to run.                   *)
(***************************************************************************)
\* variant: a system that is scheduled a second time in the same frame
RunnableAgain(s) == phase = "update" /\ runs[s] < 2

Runnable(s) == phase = "update" /\ runs[s] = 0

Ran(s) == runs' = [runs EXCEPT ![s] = @ + 1]

(***************************************************************************)
(* setup                                                                   *)
(***************************************************************************)
\* A system with a ResMut<Assets<T>> parameter panics when it is run in a
\* world without that resource; the panic ends the App.
HasAssets(params) == params \subseteq assets

setup ==
    /\ phase = "startup"
    /\ IF HasAssets({"Mesh", "StandardMaterial", "TextureAtlasLayout"})
       THEN /\ phase' = "update"
            /\ player' = Some(PlayerStart)
            /\ material' = None
       ELSE /\ phase' = "panicked"
            /\ UNCHANGED <<player, material>>
    /\ UNCHANGED <<assets, time, input, skills, spawnQueue, despawnQueue,
                   nextId, runs, born>>

\* test2.rs: setup also asks for ResMut<Assets<SkillMaterial>>
setup_test2 ==
    /\ phase = "startup"
    /\ IF HasAssets({"Mesh", "StandardMaterial", "SkillMaterial",
                     "TextureAtlasLayout"})
       THEN /\ phase' = "update"
            /\ player' = Some(PlayerStart)
            /\ material' = Some([x |-> 0, y |-> 0])
       ELSE /\ phase' = "panicked"
            /\ UNCHANGED <<player, material>>
    /\ UNCHANGED <<assets, time, input, skills, spawnQueue, despawnQueue,
                   nextId, runs, born>>

(***************************************************************************)
(* spawn_skill                                                             *)
(***************************************************************************)
\* variant: the offset is forgotten
SpawnPositionNoOffset(translation) == translation

SpawnPosition(translation) == VecAdd(translation, SpawnOffset)

\* The bundle of commands.spawn: neither file gives it a TextureAtlas.
WaterSkillBundle(pos) ==
    [translation |-> pos,
     animation_timer |-> TimerFromSeconds(ANIMATION_PERIOD, "Repeating"),
     lifetime |-> TimerFromSeconds(LIFETIME, "Once"),
     atlas |-> None]

\* query.get_single() over Query<&Transform, With<Player>>
PlayerQuery == player

\* variant: a missing player is replaced by the default transform
spawn_skill_or_default ==
    /\ Runnable("spawn_skill")
    /\ Ran("spawn_skill")
    /\ IF "Space" \in input.just_pressed
       THEN LET player_transform ==
                  IF Cardinality(PlayerQuery) = 1
                  THEN Unwrap(PlayerQuery)
                  ELSE <<F32Zero, F32Zero, F32Zero>>
            IN spawnQueue' =
                 Append(spawnQueue,
                        WaterSkillBundle(SpawnPosition(player_transform)))
       ELSE spawnQueue' = spawnQueue
    /\ UNCHANGED <<assets, phase, time, input, player, skills, material,
                   despawnQueue, nextId, born>>

spawn_skill ==
    /\ Runnable("spawn_skill")
    /\ Ran("spawn_skill")
    /\ IF "Space" \in input.just_pressed /\ Cardinality(PlayerQuery) = 1
       THEN LET player_transform == Unwrap(PlayerQuery)
            IN spawnQueue' =
                 Append(spawnQueue,
                        WaterSkillBundle(SpawnPosition(player_transform)))
       ELSE spawnQueue' = spawnQueue
    /\ UNCHANGED <<assets, phase, time, input, player, skills, material,
                   despawnQueue, nextId, born>>

(***************************************************************************)
(* animate_skills                                                          *)
(***************************************************************************)
\* main.rs: atlas.index = (atlas.index + 1) % TOTAL_FRAMES, skipping 0
NextAtlasIndex(index) ==
    LET n == (index + 1) % TOTAL_FRAMES
    IN IF n = 0 THEN 1 ELSE n

\* main.rs: Query<(&mut WaterSkill, &mut TextureAtlas)>
AtlasQuery == {e \in DOMAIN skills : skills[e].atlas # None}

AnimateEntity(s, delta) ==
    LET t == TimerTick(s.animation_timer, delta)
    IN [s EXCEPT !.animation_timer = t,
                 !.atlas = IF TimerJustFinished(t)
                           THEN Some(NextAtlasIndex(Unwrap(s.atlas)))
                           ELSE s.atlas]

\* variant: the query asks for WaterSkill alone, as test2.rs does
animate_skills_every_skill ==
    /\ Runnable("animate_skills")
    /\ Ran("animate_skills")
    /\ skills' = [e \in DOMAIN skills |->
                    [skills[e] EXCEPT
                       !.animation_timer = TimerTick(@, time.delta)]]
    /\ UNCHANGED <<assets, phase, time, input, player, material, spawnQueue,
                   despawnQueue, nextId, born>>

animate_skills ==
    /\ Runnable("animate_skills")
    /\ Ran("animate_skills")
    /\ skills' = [e \in DOMAIN skills |->
                    IF e \in AtlasQuery
                    THEN AnimateEntity(skills[e], time.delta)
                    ELSE skills[e]]
    /\ UNCHANGED <<assets, phase, time, input, player, material, spawnQueue,
                   despawnQueue, nextId, born>>

\* test2.rs: frame.x and frame.y are kept as numerators over SPRITE_COLS
\* and SPRITE_ROWS; (material.frame.x * SPRITE_COLS as f32) as usize
FrameIndexOf(m) == (m.x * SPRITE_COLS) \div SPRITE_COLS

\* variant: the column is not reduced modulo SPRITE_COLS
NextMaterialFrameNoMod(m) ==
    LET frame_index == (m.x * SPRITE_COLS) \div SPRITE_COLS
        next_frame == (frame_index + 1) % TOTAL_FRAMES
    IN IF next_frame = 0
       THEN [x |-> 1, y |-> 0]
       ELSE [x |-> next_frame, y |-> next_frame \div SPRITE_COLS]

NextMaterialFrame(m) ==
    LET frame_index == FrameIndexOf(m)
        next_frame == (frame_index + 1) % TOTAL_FRAMES
    IN IF next_frame = 0
       THEN [x |-> 1, y |-> 0]
       ELSE [x |-> next_frame % SPRITE_COLS,
             y |-> next_frame \div SPRITE_COLS]

\* the loop over query.iter_mut(), entity by entity
RECURSIVE AnimateLoop(_, _, _, _)
AnimateLoop(todo, sk, m, delta) ==
    IF todo = {}
    THEN [skills |-> sk, material |-> m]
    ELSE LET e == CHOOSE x \in todo : \A y \in todo : x <= y
             t == TimerTick(sk[e].animation_timer, delta)
         IN AnimateLoop(todo \ {e},
                        [sk EXCEPT ![e].animation_timer = t],
                        IF TimerJustFinished(t)
                        THEN NextMaterialFrame(m)
                        ELSE m,
                        delta)

animate_skills_test2 ==
    /\ Runnable("animate_skills")
    /\ Ran("animate_skills")
    /\ IF ~HasAssets({"SkillMaterial"})
       THEN phase' = "panicked" /\ UNCHANGED <<skills, material>>
       ELSE /\ phase' = phase
            /\ IF material # None
               THEN LET r == AnimateLoop(DOMAIN skills, skills,
                                         Unwrap(material), time.delta)
                    IN /\ skills' = r.skills
                       /\ material' = Some(r.material)
               ELSE UNCHANGED <<skills, material>>
    /\ UNCHANGED <<assets, time, input, player, spawnQueue, despawnQueue,
                   nextId, born>>

(***************************************************************************)
(* despawn_skills                                                          *)
(***************************************************************************)
\* variant: the lifetime timer is read without being ticked
despawn_skills_no_tick ==
    /\ Runnable("despawn_skills")
    /\ Ran("despawn_skills")
    /\ despawnQueue' =
         despawnQueue \cup
           {e \in DOMAIN skills : TimerFinished(skills[e].lifetime)}
    /\ UNCHANGED <<assets, phase, time, input, player, skills, material,
                   spawnQueue, nextId, born>>

\* variant: one finished lifetime despawns every instance
despawn_skills_all ==
    /\ Runnable("despawn_skills")
    /\ Ran("despawn_skills")
    /\ LET ticked == [e \in DOMAIN skills |->
                        [skills[e] EXCEPT
                           !.lifetime = TimerTick(@, time.delta)]]
       IN /\ skills' = ticked
          /\ despawnQueue' =
               IF \E e \in DOMAIN skills : TimerFinished(ticked[e].lifetime)
               THEN despawnQueue \cup DOMAIN skills
               ELSE despawnQueue
    /\ UNCHANGED <<assets, phase, time, input, player, material, spawnQueue,
                   nextId, born>>

despawn_skills ==
    /\ Runnable("despawn_skills")
    /\ Ran("despawn_skills")
    /\ LET ticked == [e \in DOMAIN skills |->
                        [skills[e] EXCEPT
                           !.lifetime = TimerTick(@, time.delta)]]
       IN /\ skills' = ticked
          /\ despawnQueue' =
               despawnQueue \cup
                 {e \in DOMAIN skills : TimerFinished(ticked[e].lifetime)}
    /\ UNCHANGED <<assets, phase, time, input, player, material, spawnQueue,
                   nextId, born>>

(***************************************************************************)
(* player_movement                                                         *)
(***************************************************************************)
\* Vec3::ZERO, with 1.0 subtracted or added for each key held
Movement(pressed) ==
    LET one == IntToF32(1)
        z1 == IF "KeyI" \in pressed THEN F32Sub(F32Zero, one) ELSE F32Zero
        z2 == IF "KeyK" \in pressed THEN F32Add(z1, one) ELSE z1
        x1 == IF "KeyJ" \in pressed THEN F32Sub(F32Zero, one) ELSE F32Zero
        x2 == IF "KeyL" \in pressed THEN F32Add(x1, one) ELSE x1
    IN <<x2, F32Zero, z2>>

\* time.delta_seconds(): Duration::as_secs_f32 of the delta,
\* (secs as f32) + (nanos as f32) / (NANOS_PER_SEC as f32)
DeltaSeconds(delta) ==
    F32Add(IntToF32(delta.secs),
           F32Div(IntToF32(delta.nanos), IntToF32(NANOS_PER_SEC)))

\* transform.translation += movement * speed * time.delta_seconds()
MovePlayer(translation, pressed, delta) ==
    VecAdd(translation,
           VecScale(VecScale(Movement(pressed), IntToF32(PLAYER_SPEED)),
                    DeltaSeconds(delta)))

\* variant: the With<Player> filter is forgotten
player_movement_every_transform ==
    /\ Runnable("player_movement")
    /\ Ran("player_movement")
    /\ player' = {MovePlayer(p, input.pressed, time.delta) : p \in player}
    /\ skills' = [e \in DOMAIN skills |->
                    [skills[e] EXCEPT
                       !.translation =
                          MovePlayer(@, input.pressed, time.delta)]]
    /\ UNCHANGED <<assets, phase, time, input, material, spawnQueue, despawnQueue,
                   nextId, born>>

\* Query<&mut Transform, With<Player>>: only the player's transform
player_movement ==
    /\ Runnable("player_movement")
    /\ Ran("player_movement")
    /\ player' = IF Cardinality(PlayerQuery) = 1
                 THEN Some(MovePlayer(Unwrap(PlayerQuery), input.pressed,
                                      time.delta))
                 ELSE player
    /\ UNCHANGED <<assets, phase, time, input, skills, material, spawnQueue,
                   despawnQueue, nextId, born>>

(***************************************************************************)
(* The frame boundary: the commands queued by the frame's systems are      *)
(* applied once all of them have run, then Time and the input are updated  *)
(* for the next frame.                                                     *)
(***************************************************************************)
InBounds(v) ==
    \A i \in 1..3 : /\ F32Le(v[i], IntToF32(MaxCoord))
                     /\ F32Le(IntToF32(-MaxCoord), v[i])

ApplyCommands(sk, spawns, despawns, first) ==
    [e \in (DOMAIN sk \ despawns) \cup (first .. first + Len(spawns) - 1) |->
        IF e \in DOMAIN sk THEN sk[e] ELSE spawns[e - first + 1]]

NextFrame(Frames, Systems, horizon) ==
    /\ phase = "update"
    /\ \A s \in Systems : ~Runnable(s)
    /\ \E f \in Frames :
         /\ DurLe(DurAdd(time.elapsed, f.dt), Millis(horizon))
         /\ "Space" \in f.just_pressed => nextId <= MaxSpawns
         /\ \A p \in player : InBounds(MovePlayer(p, f.pressed, f.dt))
         /\ time' = [delta |-> f.dt, elapsed |-> DurAdd(time.elapsed, f.dt)]
         /\ input' = [just_pressed |-> f.just_pressed, pressed |-> f.pressed]
    /\ skills' = ApplyCommands(skills, spawnQueue, despawnQueue, nextId)
    /\ born' = [e \in DOMAIN born \cup (nextId .. nextId + Len(spawnQueue) - 1)
                  |-> IF e \in DOMAIN born THEN born[e] ELSE time.elapsed]
    /\ nextId' = nextId + Len(spawnQueue)
    /\ spawnQueue' = <<>>
    /\ despawnQueue' = {}
    /\ runs' = [s \in AllSystems |-> 0]
    /\ UNCHANGED <<assets, phase, player, material>>

Frame(dt, just, pressed) == [dt |-> dt, just_pressed |-> just, pressed |-> pressed]

\* the frames fed to main.rs: a full 250 ms frame, the trigger in a frame
\* one nanosecond shorter (so that ages fall a nanosecond short of the
\* lifetime as well as on it), and the trigger in a 110 ms frame, whose
\* delta is no exact f32, with KeyL held
MainFrames ==
    {Frame(Dur(0, 250000000), {}, {}),
     Frame(Dur(0, 249999999), {"Space"}, {"Space"}),
     Frame(Dur(0, 250000000), {"Space"}, {"Space", "KeyL"})}

\* the frames fed to test2.rs: short ones around the cadence: a delta of
\* zero (with or without the trigger), half of a decimal 0.05 s, the
\* 0.05f32 the timer is built from, and more than two cadence periods
Test2Frames ==
    {Frame(dt, {}, {}) :
        dt \in {DurZero, Dur(0, 25000000), Dur(0, 50000001),
                Dur(0, 110000000)}}
      \cup {Frame(DurZero, {"Space"}, {"Space"})}

(***************************************************************************)
(* Specifications.                                                         *)
(***************************************************************************)
\* App::new(): an empty world before Startup
EmptyWorld ==
    /\ phase = "startup"
    /\ time = [delta |-> DurZero, elapsed |-> DurZero]
    /\ input = [just_pressed |-> {}, pressed |-> {}]
    /\ player = None
    /\ skills = <<>>
    /\ material = None
    /\ spawnQueue = <<>>
    /\ despawnQueue = {}
    /\ nextId = 1
    /\ runs = [s \in AllSystems |-> 0]
    /\ born = <<>>

\* src/src/main.rs: add_plugins(DefaultPlugins)
Init == assets = DefaultAssets /\ EmptyWorld

Next ==
    \/ setup
    \/ spawn_skill
    \/ animate_skills
    \/ despawn_skills
    \/ player_movement
    \/ NextFrame(MainFrames, AllSystems, MaxElapsed)

Spec == Init /\ [][Next]_vars

\* src/examples/test2.rs, fed no movement key: player_movement then leaves
\* the world as it is and is left out of the schedule
NextTest2 ==
    \/ setup_test2
    \/ spawn_skill
    \/ animate_skills_test2
    \/ despawn_skills
    \/ NextFrame(Test2Frames, CoreSystems, MaxElapsedTest2)

\* src/examples/test2.rs: the App as main builds it, with DefaultPlugins
\* only; setup panics in Startup on its missing Assets<SkillMaterial>
InitTest2 == assets = DefaultAssets /\ EmptyWorld

SpecTest2 == InitTest2 /\ [][NextTest2]_vars

\* The systems of test2.rs in either host: the App of its main, and the
\* same App with MaterialPlugin::<SkillMaterial> added, in which setup and
\* animate_skills find the Assets<SkillMaterial> they ask for.
InitTest2Host ==
    /\ assets \in {DefaultAssets, DefaultAssets \cup {"SkillMaterial"}}
    /\ EmptyWorld

SpecTest2Host == InitTest2Host /\ [][NextTest2]_vars

\* The systems of main.rs on a world handed over without a Player entity
\* (spec section 6: the avatar position may be none), holding no skill or
\* one freshly spawned skill.
InitHost ==
    /\ assets = DefaultAssets
    /\ phase = "update"
    /\ time = [delta |-> DurZero, elapsed |-> DurZero]
    /\ input = [just_pressed |-> {}, pressed |-> {}]
    /\ player = None
    /\ \E n \in {0, 1} :
         /\ skills = [e \in 1..n |->
                        WaterSkillBundle(SpawnPosition(PlayerStart))]
         /\ born = [e \in 1..n |-> DurZero]
         /\ nextId = n + 1
    /\ material = None
    /\ spawnQueue = <<>>
    /\ despawnQueue = {}
    /\ runs = [s \in AllSystems |-> 0]

NextHost ==
    \/ spawn_skill
    \/ animate_skills
    \/ despawn_skills
    \/ player_movement
    \/ NextFrame(MainFrames, AllSystems, MaxElapsed)

SpecHost == InitHost /\ [][NextHost]_vars

(***************************************************************************)
(* Notions the properties share.                                           *)
(***************************************************************************)
\* the step that ends a frame
FrameEnds == runs' # runs /\ \A s \in DOMAIN runs' : runs'[s] = 0

\* the step in which system s runs
Runs(s) == runs'[s] = runs[s] + 1

\* Cumulative delta an id has lived through, over the completed frames: the
\* world of a running frame is the one the previous frame left.
SinceCreation(e) == DurSub(DurSub(time.elapsed, time.delta), born[e])

\* The sprite-grid cell the test2.rs material shows.
FrameCell(m) == m.y * SPRITE_COLS + m.x

\* One step of the skip-0 policy of spec section 4.3.
PolicyStep(c) == IF (c + 1) % 25 = 0 THEN 1 ELSE (c + 1) % 25

RECURSIVE PolicySteps(_, _)
PolicySteps(c, k) == IF k = 0 THEN c ELSE PolicySteps(PolicyStep(c), k - 1)

\* p + (1, 1, 0) in f32; 1.0 is 8388608 * 2^-23
Offset(p) ==
    <<F32Add(p[1], [m |-> 8388608, e |-> -23]),
      F32Add(p[2], [m |-> 8388608, e |-> -23]),
      p[3]>>

\* 0.05 s is the f32 0.05 the code passes: 50_000_001 ns as a Duration
FreshAnimationTimer ==
    [duration |-> [secs |-> 0, nanos |-> 50000001], mode |-> "Repeating",
     elapsed |-> [secs |-> 0, nanos |-> 0], finished |-> FALSE,
     times_finished_this_tick |-> 0]

FreshLifetimeTimer ==
    [duration |-> [secs |-> 3, nanos |-> 0], mode |-> "Once",
     elapsed |-> [secs |-> 0, nanos |-> 0], finished |-> FALSE,
     times_finished_this_tick |-> 0]

Triggered == "Space" \in input.just_pressed /\ player # {}

Created == DOMAIN skills' \ DOMAIN skills

(***************************************************************************)
(* C1.  Lifetime reaping is exact: an instance is in the live collection   *)
(* exactly while the cumulative delta since its creation is below the      *)
(* 3.0 s lifetime, and is gone from the first frame boundary at which it   *)
(* has reached 3.0 s.                                                      *)
(***************************************************************************)
C1_LifetimeReapingExact ==
    \A e \in DOMAIN born : (e \in DOMAIN skills) <=> (SinceCreation(e).secs < 3)

\* an instance removed by the tick that brought it to exactly 3.0 s, while
\* a younger one is still live
C1_Witness ==
    \E e \in DOMAIN born :
        /\ e \notin DOMAIN skills
        /\ SinceCreation(e) = [secs |-> 3, nanos |-> 0]
        /\ \E o \in DOMAIN skills : SinceCreation(o).secs > 0

(***************************************************************************)
(* C2.  As claimed: in every tick the three core systems run in the order  *)
(* spawn -> animate -> reap, so animate_skills never runs before           *)
(* spawn_skill has, nor despawn_skills before animate_skills has.          *)
(***************************************************************************)
C2_FixedOrder ==
    [][/\ Runs("animate_skills") => runs["spawn_skill"] = 1
       /\ Runs("despawn_skills") => runs["animate_skills"] = 1]_vars

(***************************************************************************)
(* C2, amended.  In every tick each of the three core systems runs exactly *)
(* once: a frame ends only when each has run once, in whatever order.      *)
(***************************************************************************)
C2_OncePerFrame ==
    [][FrameEnds =>
         \A s \in {"spawn_skill", "animate_skills", "despawn_skills"} :
             runs[s] = 1]_vars

\* a frame in which all three have run
C2_Witness ==
    /\ runs["spawn_skill"] = 1
    /\ runs["animate_skills"] = 1
    /\ runs["despawn_skills"] = 1
    /\ skills # <<>>

\* a fresh instance at p + (1, 1, 0) showing the given frame
FreshInstance(p, frame) ==
    [translation |-> Offset(p), animation_timer |-> FreshAnimationTimer,
     lifetime |-> FreshLifetimeTimer, atlas |-> frame]

(***************************************************************************)
(* C3.  As claimed: a tick with the trigger pressed and the avatar present *)
(* adds exactly one instance, at avatar + (1,1,0) for the avatar position  *)
(* spawn_skill reads, with fresh timers and with frame_index = 1.          *)
(***************************************************************************)
C3_SpawnedAtFrameOne ==
    [][/\ (Runs("spawn_skill") /\ Triggered) =>
            \E p \in player :
                spawnQueue' = Append(spawnQueue, FreshInstance(p, {1}))
       /\ (FrameEnds /\ Triggered) =>
            /\ Cardinality(Created) = 1
            /\ \A e \in Created : skills'[e] = spawnQueue[1]]_vars

(***************************************************************************)
(* C3, amended.  A tick with the trigger pressed and the avatar present    *)
(* adds exactly one instance, at avatar + (1,1,0) for the avatar position  *)
(* spawn_skill reads, with a fresh Repeating 0.05 s animation timer and a  *)
(* fresh Once 3.0 s lifetime timer, and with no frame index of its own; a  *)
(* tick without them adds none.                                            *)
(***************************************************************************)
C3_SpawnedOne ==
    [][/\ Runs("spawn_skill") =>
            IF Triggered
            THEN \E p \in player :
                     spawnQueue' = Append(spawnQueue, FreshInstance(p, {}))
            ELSE spawnQueue' = spawnQueue
       /\ FrameEnds =>
            IF Triggered
            THEN /\ Len(spawnQueue) = 1
                 /\ Cardinality(Created) = 1
                 /\ \A e \in Created : skills'[e] = spawnQueue[1]
            ELSE Created = {}]_vars

\* an instance created by the frame that just ended, one offset away from
\* an avatar that had left its start (0, 0.5, 0)
C3_Witness ==
    /\ \E e \in DOMAIN skills :
         /\ SinceCreation(e) = [secs |-> 0, nanos |-> 0]
         /\ skills[e].lifetime.elapsed = [secs |-> 0, nanos |-> 0]
         /\ skills[e].translation \in {Offset(p) : p \in player}
         /\ skills[e].translation[1] # [m |-> 8388608, e |-> -23]
    /\ \A s \in DOMAIN runs : runs[s] = 0

(***************************************************************************)
(* C4.  As claimed: animate_skills advances a live instance's frame by    *)
(* one policy step per firing of its animation timer: in a tick whose      *)
(* delta carries the timer over k cadence periods the timer fires k times  *)
(* and, for k >= 1, the frame advances k steps.                            *)
(***************************************************************************)
\* the cadence periods this tick carries the animation timer of e over
Firings(e) ==
    DurDivRem(DurAdd(skills[e].animation_timer.elapsed, time.delta),
              skills[e].animation_timer.duration, 0).quot

C4_StepPerFiring ==
    [][Runs("animate_skills") =>
         \A e \in DOMAIN skills :
             /\ skills'[e].animation_timer.times_finished_this_tick
                  = Firings(e)
             /\ Firings(e) >= 1 =>
                  /\ skills'[e].atlas # skills[e].atlas
                  /\ \A c \in skills[e].atlas : \A n \in skills'[e].atlas :
                         n = PolicySteps(c, Firings(e))]_vars

(***************************************************************************)
(* C5.  Coexisting instances are independent: each instance's lifetime    *)
(* timer reads the cumulative delta since its own creation and nothing     *)
(* else, an instance leaves the live collection only when its own lifetime *)
(* has run out, and no step changes the animation state or frame of an     *)
(* instance on behalf of another.                                          *)
(***************************************************************************)
\* the lifetime timer of e as its own age alone determines it
OwnLifetime(e) ==
    LET age == IF runs["despawn_skills"] = 1
               THEN DurAdd(SinceCreation(e), time.delta)
               ELSE SinceCreation(e)
    IN IF age.secs >= 3 THEN [secs |-> 3, nanos |-> 0] ELSE age

C5_Independent ==
    /\ [](\A e \in DOMAIN skills :
             skills[e].lifetime.elapsed = OwnLifetime(e))
    /\ [][/\ \A e \in DOMAIN skills \cap DOMAIN skills' :
               /\ skills'[e].animation_timer = skills[e].animation_timer
               /\ skills'[e].atlas = skills[e].atlas
          /\ \A e \in DOMAIN skills \ DOMAIN skills' :
               skills[e].lifetime.elapsed = [secs |-> 3, nanos |-> 0]]_vars

\* two instances of different ages side by side, both ticked in this frame
C5_Witness ==
    \E e, o \in DOMAIN skills :
        /\ runs["despawn_skills"] = 1
        /\ skills[e].lifetime.elapsed.secs >= 2
        /\ skills[o].lifetime.elapsed.secs = 0
        /\ skills[o].lifetime.elapsed.nanos > 0

(***************************************************************************)
(* C6.  The frame is always a cell of the 5 x 5 sprite grid, its index in  *)
(* [0, 25), and no advance ever produces index 0: 0 is shown only by the   *)
(* material as setup creates it.                                           *)
(***************************************************************************)
C6_FrameValid ==
    [][\A n \in material' :
         /\ n.x \in 0..4
         /\ n.y \in 0..4
         /\ FrameCell(n) \in 0..24
         /\ (material # {} /\ material' # material) => FrameCell(n) # 0]_vars

\* the frame has been advanced into the second row of the grid
C6_Witness == \E m \in material : FrameCell(m) = 5

(***************************************************************************)
(* C7.  As claimed: the frame of an instance cycles through the 24 cells  *)
(* 1..24: an instance that starts at frame 1 and has been ticked through   *)
(* n >= 1 cadence periods shows the cell n steps along the cycle           *)
(* 1 -> 2 -> ... -> 24 -> 1, so that 24 periods bring it back to frame 1.  *)
(***************************************************************************)
\* the cumulative delta animate_skills has been run with since e exists
AnimatedAge(e) ==
    IF runs["animate_skills"] = 1
    THEN DurAdd(SinceCreation(e), time.delta)
    ELSE SinceCreation(e)

C8_NoAvatarNoSpawn ==
    [][player = {} =>
         /\ Created = {}
         /\ nextId' = nextId
         /\ Runs("spawn_skill") => (spawnQueue' = <<>> /\ skills' = skills)]_vars

\* the trigger was pressed, spawn_skill has run, there is no avatar, and an
\* instance is live
C8_Witness ==
    /\ player = {}
    /\ "Space" \in input.just_pressed
    /\ runs["spawn_skill"] = 1
    /\ skills # <<>>

(***************************************************************************)
(* C9.  An instance's position is fixed at spawn: no step, of any system   *)
(* or frame boundary, changes the translation of an instance that stays    *)
(* live.                                                                   *)
(***************************************************************************)
C9_PositionFixed ==
    [][\A e \in DOMAIN skills \cap DOMAIN skills' :
         skills'[e].translation = skills[e].translation]_vars

\* a live instance that has aged while the avatar has moved away from the
\* place it was spawned from
C9_Witness ==
    \E e \in DOMAIN skills : \E p \in player :
        /\ skills[e].lifetime.elapsed.secs > 0
        /\ skills[e].translation =
             <<[m |-> 8388608, e |-> -23], [m |-> 12582912, e |-> -23],
               [m |-> 0, e |-> 0]>>
        /\ p[1] # [m |-> 0, e |-> 0]

(***************************************************************************)
(* C10.  In main.rs no spawned instance is ever animated: its animation    *)
(* timer stays as created and it never has a frame index.                  *)
(***************************************************************************)
C10_NeverAnimated ==
    \A e \in DOMAIN skills :
        /\ skills[e].animation_timer = FreshAnimationTimer
        /\ skills[e].atlas = {}

\* an instance that has lived through more than one cadence period
C10_Witness ==
    \E e \in DOMAIN skills :
        /\ skills[e].lifetime.elapsed.secs >= 1
        /\ runs["animate_skills"] = 1

====
